---- MODULE Spec2Model ----
(***************************************************************************)
(* Stage ledger checkout and pipeline execution of the Arilo processing    *)
(* engine: src/main.py (_handle_stage_checkout, process_pipeline_request), *)
(* src/pipeline/base.py (Pipeline.run) and the ledger calls of             *)
(* src/db/db.py.                                                           *)
(*                                                                         *)
(* One Pub/Sub push delivery is one HTTP request.  Requests for the same   *)
(* (job, stage) may be served by different server processes that share the *)
(* database, so the ledger calls of different requests interleave at the   *)
(* granularity of one SQL statement (the connection is in autocommit mode, *)
(* db.py:34).  Inside one process the checkout runs on the event loop      *)
(* without awaiting, so two requests interleave inside the checkout only   *)
(* when they are served by two processes: every request slot of the model  *)
(* stands for a request served by a process of its own.                    *)
(***************************************************************************)
EXTENDS Integers, Sequences, FiniteSets, TLC

\* config/settings.py:21   MAX_PIPELINE_STAGE_ATTEMPTS (default "3")
MAX_PIPELINE_STAGE_ATTEMPTS == 3

\* Number of requests that can be in flight at the same time.
NumSlots == 2

Slots == 1..NumSlots

\* Number of requests in flight in the checkout race (SpecRace below): one
\* more than MAX_PIPELINE_STAGE_ATTEMPTS requests, each in a process of its own.
RaceSlots == 4

AllSlots == 1..(IF RaceSlots > NumSlots THEN RaceSlots ELSE NumSlots)

\* The job whose stage the deliveries are for.  The admission step has
\* written its row in pipeline_stages, or the job was never admitted and has
\* none (see InitRows).
Jobs == {"J1"}

\* Responses a successful step function can return (the generation service
\* is not deterministic: two runs on the same input can differ).
Payloads == {"r1", "r2"}

\* Pipeline_Stage_Status (imported by main.py:26 from config.config).
PENDING == "PENDING"
IN_PROGRESS == "IN_PROGRESS"
COMPLETED == "COMPLETED"
FAILED == "FAILED"
Pipeline_Stage_Status == {PENDING, IN_PROGRESS, COMPLETED, FAILED}

\* Pipeline_Stage_Errors (imported by main.py:26 from config.config).
ATTEMPT_COUNT_EXCEEDED == "ATTEMPT_COUNT_EXCEEDED"
FATAL_PIPELINE_ERROR == "FATAL_PIPELINE_ERROR"
Pipeline_Stage_Errors == {ATTEMPT_COUNT_EXCEEDED, FATAL_PIPELINE_ERROR}

NULL == "NULL"

\* read_stage returns None when the SELECT finds no row (db.py:292-304).
NoRow == [status |-> "ABSENT", attempt_count |-> 0, error_message |-> NULL]

\* No upstream call was made by the request.
NoNote == [status |-> "NONE", output |-> NULL, error |-> NULL]

VARIABLES
    pipeline_stages,   \* job -> row of pipeline_stages (or NoRow)
    pipeline_outputs,  \* job -> rows of pipeline_outputs of the stage, in insertion order
    req,               \* slot -> the request being handled in the slot
    acked,             \* job -> a request for the job's message was answered 2xx
    seqN,              \* J1 started as a fresh row (PENDING, attempt_count 0) and all
                       \* its requests were handled one after another: how many were
                       \* handled; -1 once two of them overlapped; -2 when J1 did not
                       \* start as a fresh row
    original,          \* output sent upstream by the first run that completed J1
    notified,          \* job -> the statuses of the upstream calls made for the stage
    proc,              \* one run of a step function (_process) followed call by call
    faults,            \* calls to the ledger or to the upstream service that raised
    user_notes,        \* rows of the table user_notes, the sentences of all users
    search,            \* one similarity search: its arguments and what it returned
    helper             \* one call of a step helper followed item by item

vars == <<pipeline_stages, pipeline_outputs, req, acked, seqN, notified, original, proc, faults,
          user_notes, search, helper>>

IdleReq ==
    [pc |-> "idle", job_id |-> "J1", attempt_seen |-> 0, response |-> NULL,
     status_code |-> 0, outcome |-> "none", sent |-> NoNote, executed |-> FALSE,
     raised |-> NULL, upstream_error |-> NULL, db_error |-> NULL]

\* No step function is being followed.
NoProc ==
    [pipeline |-> NULL, pc |-> "none", input_data |-> NULL, calls |-> <<>>,
     handed |-> <<>>, llm_metrics |-> <<>>, raised |-> NULL, failed_at |-> NULL,
     message |-> NULL, result |-> NULL, service |-> <<>>]

\* No similarity search is being followed.
NoSearch ==
    [pc |-> "none", job_user |-> NULL, user_id |-> NULL, top_k |-> 0, results |-> <<>>,
     similarity_context |-> <<>>]

\* No step helper is being followed.
NoHelper ==
    [fn |-> NULL, pc |-> "none", input |-> NULL, items |-> <<>>, outcomes |-> <<>>, idx |-> 0,
     out |-> <<>>, skipped |-> {}, origin |-> NULL, raised |-> NULL, message |-> NULL]

\* Requests that have been received and have not responded yet.
InFlight(d) == req[d].pc \notin {"idle", "done"}

\* Requests that passed the checkout and have not responded yet.
PassedPcs == {"prepare_input", "run", "write_output", "set_completed",
              "fatal_handler", "transient_handler"}

PassedCheckout(d) == req[d].pc \in PassedPcs

Min(a, b) == IF a <= b THEN a ELSE b

----------------------------------------------------------------------------
(* Ledger calls, src/db/db.py *)

\* Database.read_stage (db.py:277-304): the row of (job_id, pipeline_name), or None.
read_stage(job_id) == pipeline_stages[job_id]

\* Database.update_pipeline_stage_status (db.py:333-345):
\*   UPDATE pipeline_stages SET status = %s WHERE id = %s
update_pipeline_stage_status(job_id, status) ==
    IF pipeline_stages[job_id] = NoRow
    THEN pipeline_stages
    ELSE [pipeline_stages EXCEPT ![job_id].status = status]

\* Database.update_pipeline_stage_error (db.py:347-359):
\*   UPDATE pipeline_stages SET error_message = %s WHERE id = %s
update_pipeline_stage_error(job_id, error_message) ==
    IF pipeline_stages[job_id] = NoRow
    THEN pipeline_stages
    ELSE [pipeline_stages EXCEPT ![job_id].error_message = error_message]

\* Database.increment_pipeline_stage_attempt_count (called at main.py:265):
\* increments attempt_count of the row.
increment_pipeline_stage_attempt_count(job_id) ==
    IF pipeline_stages[job_id] = NoRow
    THEN pipeline_stages
    ELSE [pipeline_stages EXCEPT ![job_id].attempt_count = @ + 1]

\* Database.read_stage_output (called at main.py:211): the values the call can
\* return: a stored output row of the stage, or none when there is no row.
\* The SELECT has no ORDER BY, so with several rows any of them can come first.
read_stage_output(job_id) ==
    IF pipeline_outputs[job_id] = <<>>
    THEN {NULL}
    ELSE {pipeline_outputs[job_id][i] : i \in 1..Len(pipeline_outputs[job_id])}

\* Database.write_pipeline_stage_output (called at base.py:98): inserts one
\* output row for the stage.
write_pipeline_stage_output(job_id, response) ==
    [pipeline_outputs EXCEPT ![job_id] = Append(@, response)]

\* Positional parameters of update_pipeline_stage_status and of
\* update_pipeline_stage_error after self (db.py:333, db.py:347).
LedgerUpdateParams == 2

\* Positional arguments of the two ledger updates in the FatalPipelineError
\* handler (main.py:354-356 and main.py:357-361).
FatalHandlerUpdateArgs == 3

\* A Python call with a wrong number of positional arguments raises TypeError.
CallRaisesTypeError(nargs, nparams) == nargs # nparams

----------------------------------------------------------------------------
(* Initial ledger *)

\* Rows the admission step, an earlier run or an interrupted worker can have
\* left for J1 when the first request of the model arrives.
InitRows ==
    { NoRow }
    \cup
    { [status |-> PENDING, attempt_count |-> a, error_message |-> NULL] :
          a \in 0..MAX_PIPELINE_STAGE_ATTEMPTS }
    \cup
    { [status |-> s, attempt_count |-> a, error_message |-> NULL] :
          s \in {IN_PROGRESS, COMPLETED}, a \in 1..MAX_PIPELINE_STAGE_ATTEMPTS }
    \cup
    { [status |-> FAILED, attempt_count |-> a, error_message |-> e] :
          a \in 1..MAX_PIPELINE_STAGE_ATTEMPTS, e \in Pipeline_Stage_Errors }

\* An output row exists only for a stage that completed.
InitOutputs(row) ==
    IF row.status = COMPLETED THEN {<<>>, <<"r1">>} ELSE {<<>>}

FreshRow == [status |-> PENDING, attempt_count |-> 0, error_message |-> NULL]

Init ==
    /\ \E row \in InitRows :
         /\ pipeline_stages = [j \in Jobs |-> IF j = "J1" THEN row ELSE NoRow]
         /\ \E out \in InitOutputs(row) :
              /\ pipeline_outputs = [j \in Jobs |-> IF j = "J1" THEN out ELSE <<>>]
              /\ original = IF out = <<>> THEN NULL ELSE out[1]
         /\ seqN = IF row = FreshRow THEN 0 ELSE -2
    /\ req = [d \in AllSlots |-> IdleReq]
    /\ acked = [j \in Jobs |-> FALSE]
    /\ notified = [j \in Jobs |-> {}]
    /\ proc = NoProc
    /\ faults = 0
    /\ user_notes = {}
    /\ search = NoSearch
    /\ helper = NoHelper

----------------------------------------------------------------------------
(* Responses *)

Is2xx(code) == code >= 200 /\ code <= 299

\* The statuses of the upstream calls made for the stages, after the call
\* that sends note for job_id (none for NoNote).
Notified(job_id, note) ==
    IF note.status = "NONE" THEN notified
    ELSE [notified EXCEPT ![job_id] = @ \cup {note.status}]

\* The request in slot d returns its JSONResponse.
Finish(d, code, outcome, note) ==
    /\ req' = [req EXCEPT ![d] = [@ EXCEPT !.pc = "done", !.status_code = code,
                                          !.outcome = outcome, !.sent = note]]
    /\ acked' = [acked EXCEPT ![req[d].job_id] = @ \/ Is2xx(code)]
    /\ seqN' = IF req[d].job_id = "J1" /\ seqN >= 0
               THEN Min(seqN + 1, MAX_PIPELINE_STAGE_ATTEMPTS + 1)
               ELSE seqN
    /\ notified' = Notified(req[d].job_id, note)

\* _send_upstream_status (main.py:136-163) and the payload of Pipeline.run
\* (base.py:107-121): what the request sends upstream.
Note(status, output, error) == [status |-> status, output |-> output, error |-> error]

----------------------------------------------------------------------------
(* Message deliveries *)

\* Pub/Sub pushes the message of job j: a first delivery, a redelivery after a
\* non-2xx response or an expired deadline, or a duplicate.  The request takes
\* the lowest free slot.
Deliver(d, j) ==
    /\ req[d].pc = "idle"
    /\ \A e \in AllSlots : e < d => req[e].pc # "idle"
    /\ req' = [req EXCEPT ![d] = [IdleReq EXCEPT !.pc = "checkout", !.job_id = j]]
    /\ seqN' = IF /\ j = "J1"
                  /\ seqN >= 0
                  /\ \E e \in AllSlots : InFlight(e) /\ req[e].job_id = "J1"
               THEN -1
               ELSE seqN
    /\ UNCHANGED <<pipeline_stages, pipeline_outputs, acked, original, notified>>
    /\ UNCHANGED <<proc, faults, user_notes, search, helper>>

\* The response has been returned to Pub/Sub; the slot is free again.
Release(d) ==
    /\ req[d].pc = "done"
    /\ req' = [req EXCEPT ![d] = IdleReq]
    /\ UNCHANGED <<pipeline_stages, pipeline_outputs, acked, seqN, notified, original>>
    /\ UNCHANGED <<proc, faults, user_notes, search, helper>>

----------------------------------------------------------------------------
(* _handle_stage_checkout, main.py:166-269 *)

\* Variant of the attempt check that lets a stage at exactly
\* MAX_PIPELINE_STAGE_ATTEMPTS attempts through.
AttemptsExceeded_Strict(attempt_count) == attempt_count > MAX_PIPELINE_STAGE_ATTEMPTS

\* main.py:232-233   attempt_count >= MAX_PIPELINE_STAGE_ATTEMPTS
AttemptsExceeded(attempt_count) == attempt_count >= MAX_PIPELINE_STAGE_ATTEMPTS

\* main.py:232-269   after the status checks: fail the stage or check it out.
AttemptBranch(attempt_count) ==
    IF AttemptsExceeded(attempt_count) THEN "mark_failed" ELSE "set_in_progress"

\* Variant of the checkout that does not stop on a missing row.
CheckoutBranch_NoRowProceeds(row) ==
    IF row.status = IN_PROGRESS THEN "in_progress"
    ELSE IF row.status = COMPLETED THEN "read_output"
    ELSE AttemptBranch(row.attempt_count)

\* main.py:183-233   where the checkout goes after reading the row.
CheckoutBranch(row) ==
    IF row = NoRow THEN "not_found"
    ELSE IF row.status = IN_PROGRESS THEN "in_progress"
    ELSE IF row.status = COMPLETED THEN "read_output"
    ELSE AttemptBranch(row.attempt_count)

\* Variant of the checkout that answers 503 for a stage found IN_PROGRESS, so
\* that the message is delivered again.
CheckoutRead_NacksInProgress(d) ==
    /\ req[d].pc = "checkout"
    /\ LET row == read_stage(req[d].job_id)
           branch == CheckoutBranch(row)
       IN  CASE branch = "not_found" -> Finish(d, 200, "NotFound", NoNote)
             [] branch = "in_progress" -> Finish(d, 503, "AlreadyInProgress", NoNote)
             [] OTHER ->
                  /\ req' = [req EXCEPT ![d].pc = branch,
                                        ![d].attempt_seen = row.attempt_count]
                  /\ UNCHANGED <<acked, seqN, notified>>
    /\ UNCHANGED <<pipeline_stages, pipeline_outputs, original>>
    /\ UNCHANGED <<proc, faults, user_notes, search, helper>>

\* main.py:175-202, 205, 233   db.read_stage and the branches on the row read.
CheckoutRead(d) ==
    /\ req[d].pc = "checkout"
    /\ LET row == read_stage(req[d].job_id)
           branch == CheckoutBranch(row)
       IN  CASE branch = "not_found" -> Finish(d, 200, "NotFound", NoNote)
             [] branch = "in_progress" -> Finish(d, 200, "AlreadyInProgress", NoNote)
             [] OTHER ->
                  /\ req' = [req EXCEPT ![d].pc = branch,
                                        ![d].attempt_seen = row.attempt_count]
                  /\ UNCHANGED <<acked, seqN, notified>>
    /\ UNCHANGED <<pipeline_stages, pipeline_outputs, original>>
    /\ UNCHANGED <<proc, faults, user_notes, search, helper>>

\* Variant that drops the delivery of a COMPLETED stage also when no output
\* is stored.
ResendOutput_DropsWithoutOutput(d) ==
    /\ req[d].pc = "read_output"
    /\ \E output \in read_stage_output(req[d].job_id) :
         IF output # NULL
         THEN Finish(d, 200, "AlreadyCompleted", Note(COMPLETED, output, NULL))
         ELSE Finish(d, 200, "AlreadyCompleted", NoNote)
    /\ UNCHANGED <<pipeline_stages, pipeline_outputs, original>>
    /\ UNCHANGED <<proc, faults, user_notes, search, helper>>

\* main.py:204-228   the stage is COMPLETED: send the stored output upstream
\* again, or go on to the attempt check when no output is stored.
ResendOutput(d) ==
    /\ req[d].pc = "read_output"
    /\ \E output \in read_stage_output(req[d].job_id) :
         IF output # NULL
         THEN Finish(d, 200, "AlreadyCompleted", Note(COMPLETED, output, NULL))
         ELSE /\ req' = [req EXCEPT ![d].pc = AttemptBranch(req[d].attempt_seen)]
              /\ UNCHANGED <<acked, seqN, notified>>
    /\ UNCHANGED <<pipeline_stages, pipeline_outputs, original>>
    /\ UNCHANGED <<proc, faults, user_notes, search, helper>>

\* main.py:243   db.update_pipeline_stage_status(id, FAILED)
MarkFailed(d) ==
    /\ req[d].pc = "mark_failed"
    /\ pipeline_stages' = update_pipeline_stage_status(req[d].job_id, FAILED)
    /\ req' = [req EXCEPT ![d].pc = "mark_failed_error"]
    /\ UNCHANGED <<pipeline_outputs, acked, seqN, notified, original>>
    /\ UNCHANGED <<proc, faults, user_notes, search, helper>>

\* main.py:244-260   db.update_pipeline_stage_error(id, ATTEMPT_COUNT_EXCEEDED),
\* the FAILED upstream call and the 200 response.
MarkFailedError(d) ==
    /\ req[d].pc = "mark_failed_error"
    /\ pipeline_stages' = update_pipeline_stage_error(req[d].job_id, ATTEMPT_COUNT_EXCEEDED)
    /\ Finish(d, 200, "AttemptsExhausted", Note(FAILED, NULL, ATTEMPT_COUNT_EXCEEDED))
    /\ UNCHANGED <<pipeline_outputs, original>>
    /\ UNCHANGED <<proc, faults, user_notes, search, helper>>

\* main.py:264   db.update_pipeline_stage_status(id, IN_PROGRESS)
SetInProgress(d) ==
    /\ req[d].pc = "set_in_progress"
    /\ pipeline_stages' = update_pipeline_stage_status(req[d].job_id, IN_PROGRESS)
    /\ req' = [req EXCEPT ![d].pc = "increment"]
    /\ UNCHANGED <<pipeline_outputs, acked, seqN, notified, original>>
    /\ UNCHANGED <<proc, faults, user_notes, search, helper>>

\* main.py:265-269   db.increment_pipeline_stage_attempt_count(id); the checkout
\* returns the stage id.
IncrementAttempt(d) ==
    /\ req[d].pc = "increment"
    /\ pipeline_stages' = increment_pipeline_stage_attempt_count(req[d].job_id)
    /\ req' = [req EXCEPT ![d].pc = "prepare_input"]
    /\ UNCHANGED <<pipeline_outputs, acked, seqN, notified, original>>
    /\ UNCHANGED <<proc, faults, user_notes, search, helper>>

----------------------------------------------------------------------------
(* process_pipeline_request, main.py:296-379 *)

\* Error messages of _get_pipeline_input (main.py:272-293).
InputErrors == {"Ignored missing audio URL, required for this input type",
                "failed to fetch audio data",
                "Ignored missing input text, required for this input type",
                "Ignored unknown input type"}

\* main.py:332   400 if "fetch" in error_msg.lower() else 200
InputErrorStatus(error_msg) ==
    IF error_msg = "failed to fetch audio data" THEN 400 ELSE 200

\* main.py:327-333   _get_pipeline_input: the input is ready, or the request
\* ends with the error message.
PrepareInput(d) ==
    /\ req[d].pc = "prepare_input"
    /\ \/ /\ req' = [req EXCEPT ![d].pc = "run"]
          /\ UNCHANGED <<acked, seqN, notified>>
       \/ \E error_msg \in InputErrors :
            Finish(d, InputErrorStatus(error_msg), "InputError", NoNote)
    /\ UNCHANGED <<pipeline_stages, pipeline_outputs, original>>
    /\ UNCHANGED <<proc, faults, user_notes, search, helper>>

\* What _process can raise: the two classified errors or any other exception.
Raised == {"Fatal", "Transient", "Unclassified"}

\* Variant of Pipeline.run that raises every exception that is not a
\* TransientPipelineError as FatalPipelineError.
RunRaises_DefaultFatal(e) == IF e = "Transient" THEN "Transient" ELSE "Fatal"

\* base.py:80-92   classified errors are re-raised as they are, any other
\* exception leaves Pipeline.run as TransientPipelineError.
RunRaises(e) == IF e = "Fatal" THEN "Fatal" ELSE "Transient"

\* main.py:350, 369   the except clause that catches the error of Pipeline.run.
HandlerOf(e) == IF e = "Fatal" THEN "fatal_handler" ELSE "transient_handler"

\* base.py:63-92   Pipeline.run calls the step function _process, which returns
\* a response or raises.
StepFunction(d) ==
    /\ req[d].pc = "run"
    /\ \/ \E response \in Payloads :
            req' = [req EXCEPT ![d].pc = "write_output", ![d].response = response,
                                  ![d].executed = TRUE]
       \/ \E e \in Raised :
            req' = [req EXCEPT ![d].pc = HandlerOf(RunRaises(e)), ![d].executed = TRUE,
                                  ![d].raised = e]
    /\ UNCHANGED <<pipeline_stages, pipeline_outputs, acked, seqN, notified, original>>
    /\ UNCHANGED <<proc, faults, user_notes, search, helper>>

\* base.py:98   self.db.write_pipeline_stage_output(pipeline_stage_id, response)
WriteOutput(d) ==
    /\ req[d].pc = "write_output"
    /\ pipeline_outputs' = write_pipeline_stage_output(req[d].job_id, req[d].response)
    /\ req' = [req EXCEPT ![d].pc = "set_completed"]
    /\ UNCHANGED <<pipeline_stages, acked, seqN, notified, original>>
    /\ UNCHANGED <<proc, faults, user_notes, search, helper>>

\* base.py:99-123, main.py:346-348   status COMPLETED, the COMPLETED upstream
\* call with the response, and the 200 response of the request.
SetCompleted(d) ==
    /\ req[d].pc = "set_completed"
    /\ pipeline_stages' = update_pipeline_stage_status(req[d].job_id, COMPLETED)
    /\ Finish(d, 200, "Completed", Note(COMPLETED, req[d].response, NULL))
    /\ original' = IF original = NULL THEN req[d].response ELSE original
    /\ UNCHANGED pipeline_outputs
    /\ UNCHANGED <<proc, faults, user_notes, search, helper>>

\* main.py:350-367 and 375-379   except FatalPipelineError: the first ledger
\* update is called with three arguments; when the call raises, the outer
\* except Exception answers 500 and nothing else of the handler runs.
FatalHandler(d) ==
    /\ req[d].pc = "fatal_handler"
    /\ IF CallRaisesTypeError(FatalHandlerUpdateArgs, LedgerUpdateParams)
       THEN /\ Finish(d, 500, "Fatal", NoNote)
            /\ UNCHANGED pipeline_stages
       ELSE /\ pipeline_stages' =
                 [pipeline_stages EXCEPT ![req[d].job_id].status = FAILED,
                                         ![req[d].job_id].error_message = FATAL_PIPELINE_ERROR]
            /\ Finish(d, 200, "Fatal", Note(FAILED, NULL, "FatalPipelineError"))
    /\ UNCHANGED <<pipeline_outputs, original>>
    /\ UNCHANGED <<proc, faults, user_notes, search, helper>>

\* Mutant of TransientHandler: the Transient error is handled like a failure
\* of the stage (status FAILED, FAILED upstream call), still answered 503.
TransientHandler_MarksFailed(d) ==
    /\ req[d].pc = "transient_handler"
    /\ pipeline_stages' = update_pipeline_stage_status(req[d].job_id, FAILED)
    /\ Finish(d, 503, "Transient", Note(FAILED, NULL, "TransientPipelineError"))
    /\ UNCHANGED <<pipeline_outputs, original>>
    /\ UNCHANGED <<proc, faults, user_notes, search, helper>>

\* main.py:369-373   except TransientPipelineError: 503, nothing else.
TransientHandler(d) ==
    /\ req[d].pc = "transient_handler"
    /\ Finish(d, 503, "Transient", NoNote)
    /\ UNCHANGED <<pipeline_stages, pipeline_outputs, original>>
    /\ UNCHANGED <<proc, faults, user_notes, search, helper>>

----------------------------------------------------------------------------
(* Step functions: SttPipeline._process (pipeline/stt.py),                  *)
(* SmartPipeline._process (pipeline/smart.py), call_llm                     *)
(* (impl/llm_processor.py) and Pipeline._write_metrics (pipeline/base.py)   *)

\* Llm_Call (config/config.py:16-19)
STT == "stt"
SMART == "smart"
NOTEBACK == "noteback"

\* The two step functions (stt.py:16, smart.py:17).
StepFunctions == {"SttPipeline", "SmartPipeline"}

\* Usage metrics computed by GeminiProvider.calculate_metrics (gemini.py:172-222).
UsageMetrics == {"m1", "m2"}

\* The empty metrics dict {} (gemini.py:290, 295; llm_processor.py:43).
EmptyMetrics == "empty"

\* Parsed response that is not a dict (json.loads of a JSON list or scalar,
\* gemini.py:306).
NonDict == "nondict"

\* GeminiProvider.process (gemini.py:224-310): raises (ValueError at 253 or
\* any error while building the request), returns (None, {}) when the API
\* call fails or gives no text (283-295), or returns the parsed response with
\* the calculated metrics (297-310).
ProcessResults ==
    { [raises |-> e, response |-> NULL, metrics |-> NULL] : e \in {"ValueError", "Exception"} }
    \cup
    { [raises |-> NULL, response |-> NULL, metrics |-> EmptyMetrics] }
    \cup
    { [raises |-> NULL, response |-> r, metrics |-> m] :
          r \in Payloads \cup {NonDict}, m \in UsageMetrics }

\* call_llm (llm_processor.py:11-71): <<response, metrics>>.
call_llm(provider, input_data, result) ==
    IF provider = NULL THEN <<NULL, NULL>>
    ELSE IF input_data # "dict" THEN <<NULL, NULL>>
    ELSE IF result.raises # NULL THEN <<NULL, NULL>>
    ELSE IF result.response = NULL THEN <<NULL, result.metrics>>
    ELSE IF result.metrics = NULL THEN <<result.response, EmptyMetrics>>
    ELSE <<result.response, result.metrics>>

\* The exception that leaves call_llm (llm_processor.py:34-71): none.  The
\* function has no raise statement and its two except clauses (ValueError,
\* Exception) return (None, None).
call_llm_raises(provider, input_data, result) == NULL

\* Finish reasons of the first candidate of a response of the generation
\* service.
FinishReasons == {"STOP", "SAFETY"}

\* What the generation service does with one request (gemini.py:236-295):
\* the request is not sent (required fields are missing, or building it
\* fails), client.models.generate_content raises a server-side (5xx) or a
\* client-side (4xx) error, returns a response without text, or returns a
\* response with text, usage metadata and a finish reason.
GenerateOutcomes ==
    { [kind |-> k, finish_reason |-> NULL, text |-> NULL, usage |-> NULL] :
          k \in {"MissingFields", "BuildError", "ServerError", "ClientError", "NoText"} }
    \cup
    { [kind |-> "Response", finish_reason |-> f, text |-> r, usage |-> m] :
          f \in FinishReasons, r \in Payloads \cup {NonDict}, m \in UsageMetrics }

\* GeminiProvider.process applied to the outcome of the service
\* (gemini.py:243-310): the element of ProcessResults it gives.  Any exception
\* of generate_content gives (None, {}) (288-290); the finish reason of the
\* response is not read.
process(outcome) ==
    CASE outcome.kind = "MissingFields" ->
           [raises |-> "ValueError", response |-> NULL, metrics |-> NULL]
      [] outcome.kind = "BuildError" ->
           [raises |-> "Exception", response |-> NULL, metrics |-> NULL]
      [] outcome.kind \in {"ServerError", "ClientError", "NoText"} ->
           [raises |-> NULL, response |-> NULL, metrics |-> EmptyMetrics]
      [] OTHER ->
           [raises |-> NULL, response |-> outcome.text, metrics |-> outcome.usage]

\* The record of what the service did for one generation call and of the
\* exception call_llm raised to the step function.
Service(outcome) ==
    [outcome |-> outcome, raised |-> call_llm_raises("provider", "dict", process(outcome))]

\* Positional parameters of Database.write_metrics after self (db.py:263).
WriteMetricsParams == 1

\* Positional arguments of the call self.db.write_metrics(...) (base.py:156).
WriteMetricsArgs == 3

\* Variant of the metrics writer that lets the exception of db.write_metrics
\* leave the step function as a TransientPipelineError.
write_metrics_Raises(p, llm_call, metrics) ==
    IF CallRaisesTypeError(WriteMetricsArgs, WriteMetricsParams)
    THEN [p EXCEPT !.handed = Append(@, [llm_call |-> llm_call, metrics |-> metrics]),
                   !.raised = "Transient", !.failed_at = p.pc,
                   !.message = "Failed to write metrics"]
    ELSE [p EXCEPT !.handed = Append(@, [llm_call |-> llm_call, metrics |-> metrics]),
                   !.llm_metrics = Append(@, [llm_call |-> llm_call, metrics |-> metrics])]

\* Pipeline._write_metrics (base.py:151-158): the metrics are handed to the
\* writer, which calls db.write_metrics; an exception of that call is logged
\* and swallowed, and then no llm_metrics row is inserted.
write_metrics(p, llm_call, metrics) ==
    [p EXCEPT !.handed = Append(@, [llm_call |-> llm_call, metrics |-> metrics]),
              !.llm_metrics =
                  IF CallRaisesTypeError(WriteMetricsArgs, WriteMetricsParams)
                  THEN @
                  ELSE Append(@, [llm_call |-> llm_call, metrics |-> metrics])]

\* The step function raises a classified error.
Raise(p, kind, message) ==
    [p EXCEPT !.raised = kind, !.failed_at = p.pc, !.message = message, !.pc = "raised"]

\* The variables of the ledger and of the requests.
ledgerVars == <<pipeline_stages, pipeline_outputs, req, acked, seqN, notified, original, faults,
                user_notes, search, helper>>

\* What get_llm_input (impl/llm_input.py:12-89) gives: the request dict, None,
\* or an exception (a prompt file cannot be read).
LlmInputResults == {"dict", NULL, "raises"}

\* stt.py:38-49, smart.py:45-56   input checks and get_llm_input.
ProcessStart ==
    /\ proc.pc = "start"
    /\ IF proc.input_data = "empty"
       THEN proc' = Raise(proc, "Fatal", "Empty or null input provided")
       ELSE \E llm_input \in LlmInputResults :
              proc' = CASE llm_input = "raises" ->
                             Raise(proc, "Fatal", "Failed to prepare input data")
                        [] llm_input = NULL ->
                             Raise(proc, "Fatal", "Input data preparation returned null")
                        [] OTHER ->
                             [proc EXCEPT !.pc = IF proc.pipeline = "SttPipeline"
                                                 THEN "stt_call" ELSE "context_call"]
    /\ UNCHANGED ledgerVars

\* The record of one generation call.
Call(llm_call, returned) ==
    [llm_call |-> llm_call, response |-> returned[1], metrics |-> returned[2]]

\* stt.py:51-56   call_llm(self.stt_provider, stt_input_data, Llm_Call.STT)
SttCall ==
    /\ proc.pc = "stt_call"
    /\ \E outcome \in GenerateOutcomes :
         LET result == process(outcome)
         IN  /\ result \in ProcessResults
             /\ proc' = [proc EXCEPT
                            !.calls = Append(@, Call(STT, call_llm("provider", "dict", result))),
                            !.service = Append(@, Service(outcome)),
                            !.pc = "stt_metrics"]
    /\ UNCHANGED ledgerVars

\* stt.py:58-73   metrics to the writer, then the response check and the return.
SttMetrics ==
    /\ proc.pc = "stt_metrics"
    /\ LET call == proc.calls[Len(proc.calls)]
           p == IF call.metrics = NULL THEN proc
                ELSE write_metrics(proc, STT, call.metrics)
       IN  proc' = IF call.response = NULL
                   THEN Raise(p, "Transient", "Processing returned empty response")
                   ELSE [p EXCEPT !.pc = "returned", !.result = call.response]
    /\ UNCHANGED ledgerVars

\* smart.py:58-69   call_llm(self.smart_provider, smart_input_data,
\* Llm_Call.SMART) and the check of the response.
ContextCall ==
    /\ proc.pc = "context_call"
    /\ \E outcome \in GenerateOutcomes :
         LET result == process(outcome)
             call == Call(SMART, call_llm("provider", "dict", result))
             p == [proc EXCEPT !.calls = Append(@, call),
                               !.service = Append(@, Service(outcome))]
         IN  proc' = IF call.response = NULL
                     THEN Raise(p, "Transient", "Context preparation returned empty response")
                     ELSE [p EXCEPT !.pc = "context_metrics"]
    /\ UNCHANGED ledgerVars

\* Variant of the context step that does not hand the metrics of the first
\* call to the writer.
ContextMetrics_NotHanded ==
    /\ proc.pc = "context_metrics"
    /\ LET call == proc.calls[Len(proc.calls)]
       IN  proc' = IF call.response = NonDict
                   THEN Raise(proc, "Fatal", "Invalid context response type")
                   ELSE [proc EXCEPT !.pc = "similarity"]
    /\ UNCHANGED ledgerVars

\* smart.py:71-82   metrics of the context call to the writer, then the type
\* check of the response.
ContextMetrics ==
    /\ proc.pc = "context_metrics"
    /\ LET call == proc.calls[Len(proc.calls)]
           p == IF call.metrics = NULL THEN proc
                ELSE write_metrics(proc, SMART, call.metrics)
       IN  proc' = IF call.response = NonDict
                   THEN Raise(p, "Fatal", "Invalid context response type")
                   ELSE [p EXCEPT !.pc = "similarity"]
    /\ UNCHANGED ledgerVars

\* smart.py:84-89   prepare_context_for_noteback (context_utils.py:13-108)
\* returns the similarity lines (possibly none) or raises FatalPipelineError.
SimilarityContext ==
    /\ proc.pc = "similarity"
    /\ \/ proc' = Raise(proc, "Fatal", "Similarity search failed")
       \/ proc' = [proc EXCEPT !.pc = "format"]
    /\ UNCHANGED ledgerVars

\* smart.py:91-96   format_sentences (context_utils.py:111-193) returns the
\* formatted sentences or raises FatalPipelineError.
FormatSentences ==
    /\ proc.pc = "format"
    /\ \/ proc' = Raise(proc, "Fatal", "Failed to format sentence")
       \/ proc' = [proc EXCEPT !.pc = "noteback_input"]
    /\ UNCHANGED ledgerVars

\* smart.py:98-125   get_llm_input(Llm_Call.NOTEBACK, ...): any failure is
\* raised as FatalPipelineError.
NotebackInput ==
    /\ proc.pc = "noteback_input"
    /\ \E llm_input \in LlmInputResults :
         proc' = IF llm_input = "dict"
                 THEN [proc EXCEPT !.pc = "noteback_call"]
                 ELSE Raise(proc, "Fatal", "Failed to prepare noteback input")
    /\ UNCHANGED ledgerVars

\* smart.py:127-138   call_llm(self.noteback_provider, noteback_input_data,
\* Llm_Call.NOTEBACK) and the check of the response.
NotebackCall ==
    /\ proc.pc = "noteback_call"
    /\ \E outcome \in GenerateOutcomes :
         LET result == process(outcome)
             call == Call(NOTEBACK, call_llm("provider", "dict", result))
             p == [proc EXCEPT !.calls = Append(@, call),
                               !.service = Append(@, Service(outcome))]
         IN  proc' = IF call.response = NULL
                     THEN Raise(p, "Transient", "Noteback processing returned null response")
                     ELSE [p EXCEPT !.pc = "noteback_metrics"]
    /\ UNCHANGED ledgerVars

\* smart.py:140-150   metrics of the noteback call to the writer and the return.
NotebackMetrics ==
    /\ proc.pc = "noteback_metrics"
    /\ LET call == proc.calls[Len(proc.calls)]
           p == IF call.metrics = NULL THEN proc
                ELSE write_metrics(proc, NOTEBACK, call.metrics)
       IN  proc' = [p EXCEPT !.pc = "returned", !.result = call.response]
    /\ UNCHANGED ledgerVars

\* One run of a step function: the pipeline and its input_data.
InitProcess ==
    /\ pipeline_stages = [j \in Jobs |-> IF j = "J1" THEN FreshRow ELSE NoRow]
    /\ pipeline_outputs = [j \in Jobs |-> <<>>]
    /\ original = NULL
    /\ seqN = 0
    /\ req = [d \in AllSlots |-> IdleReq]
    /\ acked = [j \in Jobs |-> FALSE]
    /\ notified = [j \in Jobs |-> {}]
    /\ faults = 0
    /\ user_notes = {}
    /\ search = NoSearch
    /\ helper = NoHelper
    /\ \E pipeline \in StepFunctions, input_data \in {"empty", "data"} :
         proc = [NoProc EXCEPT !.pipeline = pipeline, !.pc = "start",
                               !.input_data = input_data]

NextProcess ==
    \/ ProcessStart
    \/ SttCall
    \/ SttMetrics
    \/ ContextCall
    \/ ContextMetrics
    \/ SimilarityContext
    \/ FormatSentences
    \/ NotebackInput
    \/ NotebackCall
    \/ NotebackMetrics

SpecProcess == InitProcess /\ [][NextProcess]_vars

----------------------------------------------------------------------------
Next ==
    \/ \E d \in Slots, j \in Jobs : Deliver(d, j)
    \/ \E d \in Slots : Release(d)
    \/ \E d \in Slots : CheckoutRead(d)
    \/ \E d \in Slots : ResendOutput(d)
    \/ \E d \in Slots : MarkFailed(d)
    \/ \E d \in Slots : MarkFailedError(d)
    \/ \E d \in Slots : SetInProgress(d)
    \/ \E d \in Slots : IncrementAttempt(d)
    \/ \E d \in Slots : PrepareInput(d)
    \/ \E d \in Slots : StepFunction(d)
    \/ \E d \in Slots : WriteOutput(d)
    \/ \E d \in Slots : SetCompleted(d)
    \/ \E d \in Slots : FatalHandler(d)
    \/ \E d \in Slots : TransientHandler(d)

Spec == Init /\ [][Next]_vars

\* The ledger starts as the admission step leaves it and only J1 is delivered.
InitFresh == Init /\ pipeline_stages["J1"] = FreshRow

\* The checkout steps of up to RaceSlots requests for J1, each served by a
\* process of its own, none of them past the checkout yet.
NextRace ==
    \/ \E d \in AllSlots : Deliver(d, "J1")
    \/ \E d \in AllSlots : CheckoutRead(d)
    \/ \E d \in AllSlots : SetInProgress(d)
    \/ \E d \in AllSlots : IncrementAttempt(d)

SpecRace == InitFresh /\ [][NextRace]_vars

\* One step of the request in slot d.
RequestStep(d) ==
    \/ CheckoutRead(d) \/ ResendOutput(d) \/ MarkFailed(d) \/ MarkFailedError(d)
    \/ SetInProgress(d) \/ IncrementAttempt(d) \/ PrepareInput(d)
    \/ StepFunction(d) \/ WriteOutput(d) \/ SetCompleted(d)
    \/ FatalHandler(d) \/ TransientHandler(d)

\* Pub/Sub delivers the message of job j again while no request for it has
\* been answered 2xx.
Redeliver(j) == \E d \in Slots : Deliver(d, j) /\ ~acked[j]

\* Every request runs to its response, every response frees its slot, and a
\* message that was not acknowledged is delivered again.
Fairness ==
    /\ \A d \in Slots : WF_vars(RequestStep(d))
    /\ \A d \in Slots : WF_vars(Release(d))
    /\ \A j \in Jobs : WF_vars(Redeliver(j))

FairSpec == Spec /\ Fairness

----------------------------------------------------------------------------
(* Properties *)

J1Row == pipeline_stages["J1"]

\* Requests executing Pipeline.run for the stage of job j.
Executing(j) ==
    {d \in AllSlots : req[d].job_id = j /\ req[d].pc \in {"run", "write_output", "set_completed"}}

\* C1: for a stage that started as a fresh row, at most one request at a time
\* has passed the checkout and is executing Pipeline.run for the stage.
C1_AtMostOneExecuting ==
    seqN # -2 => \A j \in Jobs : Cardinality(Executing(j)) <= 1

\* One request was handled for the fresh stage J1, its step raised a Transient
\* error and the row was left IN_PROGRESS with attempt_count 1.
FirstAttemptTransient ==
    /\ seqN = 1
    /\ J1Row.status = IN_PROGRESS
    /\ J1Row.attempt_count = 1
    /\ \E e \in AllSlots :
         req[e].pc = "done" /\ req[e].job_id = "J1" /\ req[e].outcome = "Transient"

\* C2 (retry admitted): after a first attempt that failed with a Transient
\* error, the checkout of the second delivery lets the request through.
C2_SecondLetThrough ==
    \A d \in AllSlots :
        (/\ FirstAttemptTransient
         /\ req[d].job_id = "J1"
         /\ req[d].pc = "checkout"
         /\ req'[d].pc # "checkout")
        => req'[d].pc = "set_in_progress"

\* C2 (retry succeeds): when the second delivery's step has succeeded, the
\* stage is COMPLETED with attempt_count 2, one output row, and that request
\* sent one COMPLETED notification.
C2_SecondCompletes ==
    \A d \in AllSlots :
        (/\ seqN = 2
         /\ req[d].pc = "done" /\ req[d].job_id = "J1" /\ req[d].outcome = "Completed"
         /\ \E e \in AllSlots :
              req[e].pc = "done" /\ req[e].job_id = "J1" /\ req[e].outcome = "Transient")
        => /\ J1Row.status = COMPLETED
           /\ J1Row.attempt_count = 2
           /\ Len(pipeline_outputs["J1"]) = 1
           /\ req[d].sent.status = COMPLETED

\* C2: first delivery of a PENDING stage fails with a Transient error (row left
\* IN_PROGRESS, attempt_count 1); the second delivery passes the checkout and,
\* its step succeeding, the stage ends COMPLETED with attempt_count 2, one
\* output row and one COMPLETED upstream notification.
C2_TransientThenRetry ==
    [][C2_SecondLetThrough]_vars /\ []C2_SecondCompletes

\* C3: with redelivery of unacknowledged messages and every step running to
\* its end, a stage that was checked out and whose execution failed with a
\* Transient error eventually is COMPLETED or FAILED (by a later success or by
\* attempt exhaustion): no stage stays IN_PROGRESS forever.
C3_EventuallyTerminal ==
    \A d \in Slots :
        (req[d].job_id = "J1" /\ req[d].pc = "transient_handler")
            ~> (J1Row.status \in {COMPLETED, FAILED})

C5_FatalMarksFailed ==
    [][\A d \in AllSlots :
         (req[d].pc = "fatal_handler" /\ req'[d].pc = "done")
         => /\ pipeline_stages'[req[d].job_id].status = FAILED
            /\ req'[d].sent.status = FAILED]_vars

\* Outcomes of the error taxonomy that the transport must acknowledge:
\* Completed, Fatal failure, and the drops of the checkout.
AckOutcomes ==
    {"Completed", "Fatal", "NotFound", "AlreadyInProgress", "AlreadyCompleted",
     "AttemptsExhausted"}

\* C6: a request whose outcome is Completed, Fatal or Dropped is answered 2xx,
\* and among the outcomes of the taxonomy only Transient is answered non-2xx.
C6_AckMapping ==
    \A d \in AllSlots :
        req[d].pc = "done" =>
            /\ req[d].outcome \in AckOutcomes => Is2xx(req[d].status_code)
            /\ req[d].outcome = "Transient" => ~Is2xx(req[d].status_code)

C9_AttemptCountMonotoneCapped ==
    /\ [][pipeline_stages'["J1"].attempt_count >= J1Row.attempt_count]_vars
    /\ [](J1Row.attempt_count <= MAX_PIPELINE_STAGE_ATTEMPTS)

\* The request in slot d leaves program point pc in this step.
Leaves(d, pc) == req[d].pc = pc /\ req'[d].pc # pc

C10_CheckoutStep(d) ==
    LET row == pipeline_stages[req[d].job_id]
        row_after == pipeline_stages'[req[d].job_id]
    IN  /\ (/\ Leaves(d, "checkout")
            /\ row # NoRow
            /\ row.status \notin {IN_PROGRESS, COMPLETED}
            /\ row.attempt_count >= MAX_PIPELINE_STAGE_ATTEMPTS)
           => /\ req'[d].pc = "mark_failed"
              /\ row_after = row
        /\ (/\ Leaves(d, "read_output")
            /\ pipeline_outputs[req[d].job_id] = <<>>
            /\ req[d].attempt_seen >= MAX_PIPELINE_STAGE_ATTEMPTS)
           => /\ req'[d].pc = "mark_failed"
              /\ row_after = row
        /\ Leaves(d, "mark_failed")
           => /\ req'[d].pc = "mark_failed_error"
              /\ row_after.status = FAILED
              /\ row_after.attempt_count = row.attempt_count
        /\ Leaves(d, "mark_failed_error")
           => /\ req'[d].pc = "done"
              /\ req'[d].outcome = "AttemptsExhausted"
              /\ row_after.status = FAILED
              /\ row_after.error_message = ATTEMPT_COUNT_EXCEEDED
              /\ row_after.attempt_count = req[d].attempt_seen
              /\ ~req'[d].executed
              /\ Is2xx(req'[d].status_code)
              /\ acked'[req[d].job_id]

C13_MissingRowDropped ==
    [][\A d \in AllSlots :
         (Leaves(d, "checkout") /\ pipeline_stages[req[d].job_id] = NoRow)
         => /\ req'[d].pc = "done"
            /\ req'[d].outcome = "NotFound"
            /\ Is2xx(req'[d].status_code)
            /\ acked'[req[d].job_id]
            /\ pipeline_stages' = pipeline_stages
            /\ pipeline_outputs' = pipeline_outputs
            /\ ~req'[d].executed
            /\ req'[d].sent = NoNote]_vars

C13_Witness ==
    \E d \in Slots :
        /\ req[d].pc = "done" /\ req[d].job_id = "J1"
        /\ req[d].outcome = "NotFound" /\ req[d].status_code = 200
        /\ req[d].sent = NoNote /\ ~req[d].executed
        /\ pipeline_stages["J1"] = NoRow /\ pipeline_outputs["J1"] = <<>>
        /\ acked["J1"]

\* C14: a request that finds its stage IN_PROGRESS ends at the checkout: the
\* stage row (status, attempt_count, error_message) and the output rows are
\* unchanged, the step function is not run (so no metric is written either),
\* nothing is sent upstream and the request is answered 2xx.
C14_InProgressDropped ==
    [][\A d \in AllSlots :
         (Leaves(d, "checkout") /\ pipeline_stages[req[d].job_id].status = IN_PROGRESS)
         => /\ req'[d].pc = "done"
            /\ req'[d].outcome = "AlreadyInProgress"
            /\ Is2xx(req'[d].status_code)
            /\ acked'[req[d].job_id]
            /\ pipeline_stages' = pipeline_stages
            /\ pipeline_outputs' = pipeline_outputs
            /\ ~req'[d].executed
            /\ req'[d].sent = NoNote]_vars

C14_Witness ==
    \E d \in Slots :
        /\ req[d].pc = "done" /\ req[d].job_id = "J1"
        /\ req[d].outcome = "AlreadyInProgress" /\ req[d].status_code = 200
        /\ req[d].sent = NoNote /\ ~req[d].executed
        /\ J1Row.status = IN_PROGRESS
        /\ acked["J1"]

\* C15: a checkout that reads status COMPLETED goes on to read the stored
\* output, and when no output row is stored the request is not dropped: it
\* goes to the attempt check, and with attempt_count < MAX_PIPELINE_STAGE_ATTEMPTS
\* it proceeds to check the stage out (IN_PROGRESS) for re-execution.
C15_CompletedWithoutOutputReruns ==
    [][\A d \in AllSlots :
         /\ (Leaves(d, "checkout") /\ pipeline_stages[req[d].job_id].status = COMPLETED)
            => req'[d].pc = "read_output"
         /\ (Leaves(d, "read_output") /\ pipeline_outputs[req[d].job_id] = <<>>)
            => /\ req'[d].pc # "done"
               /\ req[d].attempt_seen < MAX_PIPELINE_STAGE_ATTEMPTS
                  => req'[d].pc = "set_in_progress"
               /\ req[d].attempt_seen >= MAX_PIPELINE_STAGE_ATTEMPTS
                  => req'[d].pc = "mark_failed"]_vars

\* A request found the stage COMPLETED without an output row, passed the
\* attempt check and is about to check the stage out.
C15_Witness ==
    \E d \in Slots :
        /\ req[d].pc = "set_in_progress" /\ req[d].job_id = "J1"
        /\ J1Row.status = COMPLETED
        /\ pipeline_outputs["J1"] = <<>>
        /\ req[d].attempt_seen < MAX_PIPELINE_STAGE_ATTEMPTS

\* C16: a stage (started as a fresh row) never has more than one output row;
\* an output row is added only by a request whose step function succeeded,
\* and the rows already stored are never modified or removed.
C16_OneOutputRow ==
    /\ [](seqN # -2 => \A j \in Jobs : Len(pipeline_outputs[j]) <= 1)
    /\ [][pipeline_outputs' # pipeline_outputs
          => \E d \in AllSlots :
                /\ req[d].pc = "write_output" /\ req[d].executed
                /\ req[d].response \in Payloads
                /\ pipeline_outputs' =
                     [pipeline_outputs EXCEPT ![req[d].job_id] = Append(@, req[d].response)]]_vars

\* Steps of SmartPipeline._process after the context call and its metrics.
LaterSmartSteps == {"similarity", "format", "noteback_input", "noteback_call"}

\* C17: in the SMART step function, when the context call returned a response
\* and metrics and a later step (similarity search, sentence formatting,
\* noteback input preparation, second generation call) raises, the metrics of
\* the context call were handed to the metrics writer before the raise.
C17_FirstCallMetricsHanded ==
    [][(/\ proc.pipeline = "SmartPipeline"
        /\ proc.pc \in LaterSmartSteps
        /\ proc'.pc = "raised")
       => /\ proc.calls[1].llm_call = SMART
          /\ proc.calls[1].response # NULL
          /\ proc.calls[1].metrics # NULL
          /\ Len(proc.handed) >= 1
          /\ proc.handed[1] = [llm_call |-> SMART, metrics |-> proc.calls[1].metrics]
          /\ proc'.handed = proc.handed]_vars

\* The second generation call of a SMART run failed after the context call
\* had succeeded with usage metrics, which are with the writer.
C17_Witness ==
    /\ proc.pipeline = "SmartPipeline"
    /\ proc.pc = "raised"
    /\ proc.failed_at = "noteback_call"
    /\ proc.calls[1].response \in Payloads
    /\ proc.calls[1].metrics \in UsageMetrics
    /\ proc.handed = <<[llm_call |-> SMART, metrics |-> proc.calls[1].metrics]>>

\* The metrics steps, where a call has returned and its metrics are not yet
\* with the writer.
MetricsSteps == {"stt_metrics", "context_metrics", "noteback_metrics"}

\* C18: for every generation call that returned metrics, an llm_metrics row
\* of the call has been written as soon as the step function goes on after
\* the call, whether the response was empty and whether the step function
\* raised; for the STT call and both SMART calls.
C18_MetricsAfterEveryCall ==
    proc.pc \notin MetricsSteps
    => \A i \in 1..Len(proc.calls) :
          proc.calls[i].metrics # NULL
          => \E k \in 1..Len(proc.llm_metrics) :
                proc.llm_metrics[k] = [llm_call |-> proc.calls[i].llm_call,
                                       metrics |-> proc.calls[i].metrics]

C20_NoReclassification ==
    \A d \in AllSlots :
        req[d].pc = "done" =>
            /\ req[d].raised = "Fatal"
               => Is2xx(req[d].status_code) /\ req[d].sent.status = FAILED
            /\ req[d].raised = "Transient"
               => ~Is2xx(req[d].status_code) /\ req[d].sent = NoNote

----------------------------------------------------------------------------
(* Failures of the upstream service and of the ledger: the same requests,   *)
(* with the calls to the two collaborators allowed to raise                 *)

\* Number of calls that fail while the requests of the model are handled.
MaxFaults == 2

\* One more call raises.
Fails == faults < MaxFaults /\ faults' = faults + 1

\* What requests.post / raise_for_status can raise inside upstream_call
\* (util.py:34-35): an HTTP error status whose body is JSON, an HTTP error
\* status whose body is not JSON, or a connection error or timeout.
UpstreamErrors == {"HTTPError", "HTTPErrorNoJson", "RequestException"}

\* upstream_call (util.py:25-41): the two except clauses log the error; with
\* a body that is not JSON, e.response.json() raises inside the first clause
\* (util.py:38) and that exception leaves the function.
upstream_call(error) ==
    IF error = "HTTPErrorNoJson" THEN "raises" ELSE "returns"

\* Variant of Pipeline._send_upstream without its try/except.
send_upstream_NoCatch(error) == upstream_call(error)

\* Pipeline._send_upstream (base.py:141-149): except Exception logs the error.
send_upstream(error) ==
    IF upstream_call(error) = "raises" THEN "returns" ELSE upstream_call(error)

\* _send_upstream_status (main.py:136-163): except Exception logs the error.
send_upstream_status(error) ==
    IF upstream_call(error) = "raises" THEN "returns" ELSE upstream_call(error)

\* The request in slot d returns its JSONResponse after an upstream call that
\* failed with error.
FinishUpstreamError(d, code, outcome, note, error) ==
    /\ req' = [req EXCEPT ![d] = [@ EXCEPT !.pc = "done", !.status_code = code,
                                          !.outcome = outcome, !.sent = note,
                                          !.upstream_error = error]]
    /\ acked' = [acked EXCEPT ![req[d].job_id] = @ \/ Is2xx(code)]
    /\ seqN' = IF req[d].job_id = "J1" /\ seqN >= 0
               THEN Min(seqN + 1, MAX_PIPELINE_STAGE_ATTEMPTS + 1)
               ELSE seqN
    /\ notified' = Notified(req[d].job_id, note)

\* base.py:99-123, main.py:346-348, 375-379   status COMPLETED, then the
\* COMPLETED upstream call fails.  An exception leaving Pipeline.run that is
\* neither of the classified errors reaches the outer except (500).
SetCompletedUpstreamFails(d) ==
    /\ req[d].pc = "set_completed"
    /\ pipeline_stages' = update_pipeline_stage_status(req[d].job_id, COMPLETED)
    /\ \E error \in UpstreamErrors :
         IF send_upstream(error) = "returns"
         THEN FinishUpstreamError(d, 200, "Completed",
                                  Note(COMPLETED, req[d].response, NULL), error)
         ELSE FinishUpstreamError(d, 500, "Unhandled",
                                  Note(COMPLETED, req[d].response, NULL), error)
    /\ original' = IF original = NULL THEN req[d].response ELSE original
    /\ UNCHANGED pipeline_outputs
    /\ Fails
    /\ UNCHANGED <<proc, user_notes, search, helper>>

\* main.py:210-228   the stored output of a COMPLETED stage is read and the
\* upstream call that sends it again fails.  An exception inside the try is
\* answered 400.
ResendOutputUpstreamFails(d) ==
    /\ req[d].pc = "read_output"
    /\ \E output \in read_stage_output(req[d].job_id), error \in UpstreamErrors :
         /\ output # NULL
         /\ IF send_upstream_status(error) = "returns"
            THEN FinishUpstreamError(d, 200, "AlreadyCompleted",
                                     Note(COMPLETED, output, NULL), error)
            ELSE FinishUpstreamError(d, 400, "OutputReadFailed",
                                     Note(COMPLETED, output, NULL), error)
    /\ UNCHANGED <<pipeline_stages, pipeline_outputs, original>>
    /\ Fails
    /\ UNCHANGED <<proc, user_notes, search, helper>>

\* main.py:244-260   the error of the exhausted stage is written and the
\* FAILED upstream call fails.  The response is 200 after the try either way.
MarkFailedErrorUpstreamFails(d) ==
    /\ req[d].pc = "mark_failed_error"
    /\ pipeline_stages' = update_pipeline_stage_error(req[d].job_id, ATTEMPT_COUNT_EXCEEDED)
    /\ \E error \in UpstreamErrors :
         FinishUpstreamError(d, 200, "AttemptsExhausted",
                             Note(FAILED, NULL, ATTEMPT_COUNT_EXCEEDED), error)
    /\ UNCHANGED <<pipeline_outputs, original>>
    /\ Fails
    /\ UNCHANGED <<proc, user_notes, search, helper>>

\* The request in slot d returns its JSONResponse after the ledger call named
\* call raised.
FinishDbError(d, code, outcome, call) ==
    /\ req' = [req EXCEPT ![d] = [@ EXCEPT !.pc = "done", !.status_code = code,
                                          !.outcome = outcome, !.db_error = call]]
    /\ acked' = [acked EXCEPT ![req[d].job_id] = @ \/ Is2xx(code)]
    /\ seqN' = IF req[d].job_id = "J1" /\ seqN >= 0
               THEN Min(seqN + 1, MAX_PIPELINE_STAGE_ATTEMPTS + 1)
               ELSE seqN
    /\ UNCHANGED notified

\* Variant of the failing read that answers 503, so that the message is
\* delivered again.
CheckoutReadFails_Nacks(d) ==
    /\ req[d].pc = "checkout"
    /\ FinishDbError(d, 503, "ReadFailed", "read_stage")
    /\ UNCHANGED <<pipeline_stages, pipeline_outputs, original>>
    /\ Fails
    /\ UNCHANGED <<proc, user_notes, search, helper>>

\* main.py:175-181   db.read_stage raises: the request is answered 200.
CheckoutReadFails(d) ==
    /\ req[d].pc = "checkout"
    /\ FinishDbError(d, 200, "ReadFailed", "read_stage")
    /\ UNCHANGED <<pipeline_stages, pipeline_outputs, original>>
    /\ Fails
    /\ UNCHANGED <<proc, user_notes, search, helper>>

\* main.py:210-211, 224-228   db.read_stage_output raises: answered 400.
ReadOutputFails(d) ==
    /\ req[d].pc = "read_output"
    /\ FinishDbError(d, 400, "OutputReadFailed", "read_stage_output")
    /\ UNCHANGED <<pipeline_stages, pipeline_outputs, original>>
    /\ Fails
    /\ UNCHANGED <<proc, user_notes, search, helper>>

\* main.py:242-243, 254-260   the FAILED status update raises: the error is
\* logged, the error update and the upstream call are skipped, answered 200.
MarkFailedFails(d) ==
    /\ req[d].pc = "mark_failed"
    /\ FinishDbError(d, 200, "AttemptsExhausted", "update_pipeline_stage_status FAILED")
    /\ UNCHANGED <<pipeline_stages, pipeline_outputs, original>>
    /\ Fails
    /\ UNCHANGED <<proc, user_notes, search, helper>>

\* main.py:244-246, 254-260   the error update raises: the error is logged,
\* the upstream call is skipped, answered 200.
MarkFailedErrorFails(d) ==
    /\ req[d].pc = "mark_failed_error"
    /\ FinishDbError(d, 200, "AttemptsExhausted", "update_pipeline_stage_error")
    /\ UNCHANGED <<pipeline_stages, pipeline_outputs, original>>
    /\ Fails
    /\ UNCHANGED <<proc, user_notes, search, helper>>

\* main.py:263-269   the IN_PROGRESS status update raises: the error is
\* logged, the increment is skipped and the checkout returns the stage id.
SetInProgressFails(d) ==
    /\ req[d].pc = "set_in_progress"
    /\ req' = [req EXCEPT ![d].pc = "prepare_input",
                          ![d].db_error = "update_pipeline_stage_status IN_PROGRESS"]
    /\ UNCHANGED <<pipeline_stages, pipeline_outputs, acked, seqN, notified, original>>
    /\ Fails
    /\ UNCHANGED <<proc, user_notes, search, helper>>

\* main.py:265-269   the increment raises: the error is logged and the
\* checkout returns the stage id.
IncrementAttemptFails(d) ==
    /\ req[d].pc = "increment"
    /\ req' = [req EXCEPT ![d].pc = "prepare_input",
                          ![d].db_error = "increment_pipeline_stage_attempt_count"]
    /\ UNCHANGED <<pipeline_stages, pipeline_outputs, acked, seqN, notified, original>>
    /\ Fails
    /\ UNCHANGED <<proc, user_notes, search, helper>>

\* Variant of the failing output write that only logs the error and goes on
\* to the status update.
WriteOutputFails_LoggedOnly(d) ==
    /\ req[d].pc = "write_output"
    /\ req' = [req EXCEPT ![d].pc = "set_completed",
                          ![d].db_error = "write_pipeline_stage_output"]
    /\ UNCHANGED <<pipeline_stages, pipeline_outputs, acked, seqN, notified, original>>
    /\ Fails
    /\ UNCHANGED <<proc, user_notes, search, helper>>

\* base.py:97-98, 102-104, main.py:369   the output write raises: Pipeline.run
\* raises TransientPipelineError and the status update does not run.
WriteOutputFails(d) ==
    /\ req[d].pc = "write_output"
    /\ req' = [req EXCEPT ![d].pc = HandlerOf("Transient"),
                          ![d].db_error = "write_pipeline_stage_output"]
    /\ UNCHANGED <<pipeline_stages, pipeline_outputs, acked, seqN, notified, original>>
    /\ Fails
    /\ UNCHANGED <<proc, user_notes, search, helper>>

\* base.py:99-104, main.py:369   the COMPLETED status update raises:
\* Pipeline.run raises TransientPipelineError before the upstream call.
SetCompletedFails(d) ==
    /\ req[d].pc = "set_completed"
    /\ req' = [req EXCEPT ![d].pc = HandlerOf("Transient"),
                          ![d].db_error = "update_pipeline_stage_status COMPLETED"]
    /\ UNCHANGED <<pipeline_stages, pipeline_outputs, acked, seqN, notified, original>>
    /\ Fails
    /\ UNCHANGED <<proc, user_notes, search, helper>>

\* Requests are handled one after another when failures are followed.
FaultSlots == {1}

NextFaults ==
    \/ \E d \in FaultSlots, j \in Jobs : Deliver(d, j)
    \/ \E d \in FaultSlots : Release(d)
    \/ \E d \in FaultSlots : CheckoutRead(d)
    \/ \E d \in FaultSlots : ResendOutput(d)
    \/ \E d \in FaultSlots : MarkFailed(d)
    \/ \E d \in FaultSlots : MarkFailedError(d)
    \/ \E d \in FaultSlots : SetInProgress(d)
    \/ \E d \in FaultSlots : IncrementAttempt(d)
    \/ \E d \in FaultSlots : PrepareInput(d)
    \/ \E d \in FaultSlots : StepFunction(d)
    \/ \E d \in FaultSlots : WriteOutput(d)
    \/ \E d \in FaultSlots : SetCompleted(d)
    \/ \E d \in FaultSlots : FatalHandler(d)
    \/ \E d \in FaultSlots : TransientHandler(d)
    \/ \E d \in FaultSlots : SetCompletedUpstreamFails(d)
    \/ \E d \in FaultSlots : ResendOutputUpstreamFails(d)
    \/ \E d \in FaultSlots : MarkFailedErrorUpstreamFails(d)
    \/ \E d \in FaultSlots : CheckoutReadFails(d)
    \/ \E d \in FaultSlots : ReadOutputFails(d)
    \/ \E d \in FaultSlots : MarkFailedFails(d)
    \/ \E d \in FaultSlots : MarkFailedErrorFails(d)
    \/ \E d \in FaultSlots : SetInProgressFails(d)
    \/ \E d \in FaultSlots : IncrementAttemptFails(d)
    \/ \E d \in FaultSlots : WriteOutputFails(d)
    \/ \E d \in FaultSlots : SetCompletedFails(d)

SpecFaults == Init /\ [][NextFaults]_vars

----------------------------------------------------------------------------
(* Properties of the requests under failures *)

\* The upstream call of the request in slot d fails in this step.
UpstreamFails(d) == req[d].upstream_error = NULL /\ req'[d].upstream_error # NULL

\* C21: a failure of the upstream call does not propagate.  The step in which
\* the call fails ends the request with the response code and the outcome of
\* the same step without the failure (200: the delivery is acknowledged), and
\* writes the stage row as that step does: a stage that completed is
\* COMPLETED, a resend leaves the row alone, an exhausted stage gets its error.
C21_UpstreamFailureContained ==
    [][\A d \in FaultSlots :
         UpstreamFails(d) =>
            /\ req'[d].pc = "done"
            /\ req'[d].status_code = 200
            /\ acked'[req[d].job_id]
            /\ req[d].pc \in {"set_completed", "read_output", "mark_failed_error"}
            /\ req[d].pc = "set_completed" =>
                 /\ req'[d].outcome = "Completed"
                 /\ pipeline_stages' = update_pipeline_stage_status(req[d].job_id, COMPLETED)
                 /\ pipeline_stages'["J1"].status = COMPLETED
            /\ req[d].pc = "read_output" =>
                 /\ req'[d].outcome = "AlreadyCompleted"
                 /\ pipeline_stages' = pipeline_stages
            /\ req[d].pc = "mark_failed_error" =>
                 /\ req'[d].outcome = "AttemptsExhausted"
                 /\ pipeline_stages' =
                      update_pipeline_stage_error(req[d].job_id, ATTEMPT_COUNT_EXCEEDED)
            /\ pipeline_outputs' = pipeline_outputs]_vars

\* A run completed its stage, the COMPLETED upstream call raised out of
\* upstream_call, and the request was answered 200 with the row COMPLETED.
C21_Witness ==
    /\ req[1].pc = "done"
    /\ req[1].upstream_error = "HTTPErrorNoJson"
    /\ req[1].executed
    /\ req[1].outcome = "Completed"
    /\ req[1].status_code = 200
    /\ J1Row.status = COMPLETED

----------------------------------------------------------------------------
(* Properties of the generation calls *)

\* The generation calls of the run for which the service did kind.
CallsOfKind(kind) ==
    { i \in 1..Len(proc.service) : proc.service[i].outcome.kind = kind }

\* C22: when the generation service fails with a server-side (5xx) error,
\* call_llm raises TransientPipelineError to the step function.
C22_ServerErrorRaisesTransient ==
    \A i \in CallsOfKind("ServerError") : proc.service[i].raised = "Transient"

\* C23: when the generation service rejects the request with a client-side
\* (4xx) error, call_llm raises FatalPipelineError to the step function, and
\* the step function ends with a Fatal error (the stage is failed, not
\* retried).
C23_ClientErrorRaisesFatal ==
    \A i \in CallsOfKind("ClientError") :
       /\ proc.service[i].raised = "Fatal"
       /\ (i = Len(proc.service) /\ proc.pc = "raised") => proc.raised = "Fatal"

\* C24: when the first candidate of the response has finish reason SAFETY,
\* call_llm raises FatalPipelineError and does not return the text of the
\* response as a result.
C24_SafetyRaisesFatal ==
    \A i \in CallsOfKind("Response") :
       proc.service[i].outcome.finish_reason = "SAFETY"
       => /\ proc.service[i].raised = "Fatal"
          /\ proc.calls[i].response = NULL

----------------------------------------------------------------------------
(* Database.similarity_search (db/db.py:146-210, the same query in          *)
(* vector/db.py:141-205) and prepare_context_for_noteback                   *)
(* (impl/context_utils.py:13-108)                                           *)

\* Users that own sentences and jobs.
Users == {"123", "456"}

\* context_utils.py:67   similarity_search(user_id="123", query=anchor, top_k=3)
ContextUserId == "123"

ContextTopK == 3

\* Number of rows of user_notes.
MaxRows == 3

\* Cosine distances of a stored sentence to the query, in tenths.
Distances == {1, 9}

Importances == 0..2

\* Timestamps of the rows as epoch values.
Timestamps == 0..1

\* A row of user_notes as the query sees it: its owner, embedding <=> query
\* (in tenths), importance_score and EXTRACT(EPOCH FROM timestamp).
NoteRows ==
    [user_id : Users, distance : Distances, importance_score : Importances,
     ts_epoch : Timestamps]

RECURSIVE TablesUpTo(_)
\* The tables of at most n rows.
TablesUpTo(n) ==
    IF n = 0 THEN {{}}
    ELSE LET smaller == TablesUpTo(n - 1)
         IN  smaller \cup {t \cup {r} : t \in smaller, r \in NoteRows}

RECURSIVE GCD(_, _)
GCD(a, b) == IF b = 0 THEN a ELSE GCD(b, a % b)

\* SQL NULL as a numeric value.
SqlNull == [null |-> TRUE, num |-> 0, den |-> 1]

\* The numeric value n / d (d > 0, n >= 0), in lowest terms.
Val(n, d) ==
    LET g == GCD(n, d) IN [null |-> FALSE, num |-> n \div g, den |-> d \div g]

\* SQL + * / : NULL when an operand is NULL.
SqlAdd(a, b) ==
    IF a.null \/ b.null THEN SqlNull
    ELSE Val(a.num * b.den + b.num * a.den, a.den * b.den)

SqlMul(a, b) ==
    IF a.null \/ b.null THEN SqlNull ELSE Val(a.num * b.num, a.den * b.den)

SqlDiv(a, b) ==
    IF a.null \/ b.null THEN SqlNull ELSE Val(a.num * b.den, a.den * b.num)

\* SQL NULLIF(a, b): NULL when a = b, else a.
NULLIF(a, b) ==
    IF ~a.null /\ ~b.null /\ a.num * b.den = b.num * a.den THEN SqlNull ELSE a

MaxOf(S) == CHOOSE x \in S : \A y \in S : y <= x

MinOf(S) == CHOOSE x \in S : \A y \in S : x <= y

\* db.py:161-170   ranked_notes: the rows WHERE user_id = %s
ranked_notes(user_id) == {r \in user_notes : r.user_id = user_id}

\* Variant of ranked_notes for the statistics: the rows of every user.
ranked_notes_AllUsers(user_id) == user_notes

\* The rows the statistics are taken over (db.py:176, FROM ranked_notes).
stats_rows(user_id) == ranked_notes(user_id)

\* db.py:171-177   stats: MAX(importance_score), MIN(ts_epoch), MAX(ts_epoch)
stats(user_id) ==
    LET rows == stats_rows(user_id)
    IN  [max_importance |-> MaxOf({r.importance_score : r \in rows}),
         min_ts |-> MinOf({r.ts_epoch : r \in rows}),
         max_ts |-> MaxOf({r.ts_epoch : r \in rows})]

\* db.py:184-186   combined_score of the row rn with the statistics s.
combined_score(rn, s) ==
    SqlAdd(
      SqlAdd(
        SqlMul(SqlDiv(Val(1, 1), SqlAdd(Val(1, 1), Val(rn.distance, 10))), Val(6, 10)),
        SqlMul(SqlDiv(Val(rn.importance_score, 1),
                      NULLIF(Val(s.max_importance, 1), Val(0, 1))),
               Val(2, 10))),
      SqlMul(SqlDiv(Val(rn.ts_epoch - s.min_ts, 1),
                    NULLIF(Val(s.max_ts - s.min_ts, 1), Val(0, 1))),
             Val(2, 10)))

\* Variant of the order: ascending.
SortsBefore_Ascending(a, b) ==
    b.null \/ (~a.null /\ a.num * b.den <= b.num * a.den)

\* db.py:189   ORDER BY combined_score DESC: a can come before b.  PostgreSQL
\* puts NULL first in a descending order.
SortsBefore(a, b) ==
    a.null \/ (~b.null /\ a.num * b.den >= b.num * a.den)

RECURSIVE OrderLimit(_, _)
\* db.py:189-190   ORDER BY combined_score DESC LIMIT top_k: the sequences of
\* rows the query can return (rows of equal score come in any order).
OrderLimit(items, top_k) ==
    IF top_k = 0 \/ items = {} THEN {<<>>}
    ELSE UNION { { <<first>> \o rest : rest \in OrderLimit(items \ {first}, top_k - 1) } :
                 first \in { i \in items :
                               \A o \in items :
                                  SortsBefore(i.combined_score, o.combined_score) } }

\* db.py:146-210   similarity_search(user_id, query, top_k): the result lists
\* the call can return.
similarity_search(user_id, top_k) ==
    LET rows == ranked_notes(user_id)
    IN  IF rows = {} THEN {<<>>}
        ELSE OrderLimit({ [row |-> rn, combined_score |-> combined_score(rn, stats(user_id))] :
                            rn \in rows },
                        top_k)

\* A call of similarity_search with any user and limit.
SimilaritySearch ==
    /\ search.pc = "none"
    /\ \E user_id \in Users, top_k \in 1..MaxRows :
         \E results \in similarity_search(user_id, top_k) :
            search' = [NoSearch EXCEPT !.pc = "searched", !.user_id = user_id,
                                       !.top_k = top_k, !.results = results]
    /\ UNCHANGED <<pipeline_stages, pipeline_outputs, req, acked, seqN, notified, original,
                   proc, faults, user_notes, helper>>

\* context_utils.py:54-90   prepare_context_for_noteback for one anchor of a
\* job of job_user: the search and the context lines made of its results.
PrepareContext ==
    /\ search.pc = "none"
    /\ \E job_user \in Users :
         \E results \in similarity_search(ContextUserId, ContextTopK) :
            search' = [NoSearch EXCEPT
                         !.pc = "context", !.job_user = job_user,
                         !.user_id = ContextUserId, !.top_k = ContextTopK,
                         !.results = results,
                         !.similarity_context =
                            [i \in 1..Len(results) |->
                               [sentence |-> results[i].row,
                                value_score |-> results[i].combined_score]]]
    /\ UNCHANGED <<pipeline_stages, pipeline_outputs, req, acked, seqN, notified, original,
                   proc, faults, user_notes, helper>>

\* Any table of at most MaxRows rows, no search made yet.
InitSearch ==
    /\ pipeline_stages = [j \in Jobs |-> IF j = "J1" THEN FreshRow ELSE NoRow]
    /\ pipeline_outputs = [j \in Jobs |-> <<>>]
    /\ original = NULL
    /\ seqN = 0
    /\ req = [d \in AllSlots |-> IdleReq]
    /\ acked = [j \in Jobs |-> FALSE]
    /\ notified = [j \in Jobs |-> {}]
    /\ faults = 0
    /\ proc = NoProc
    /\ user_notes \in TablesUpTo(MaxRows)
    /\ search = NoSearch
    /\ helper = NoHelper

NextSearch ==
    \/ SimilaritySearch
    \/ PrepareContext

SpecSearch == InitSearch /\ [][NextSearch]_vars

----------------------------------------------------------------------------
(* Properties of the similarity search *)

\* The rows of the queried user and the reference normalizers over them.
UserRows == {r \in user_notes : r.user_id = search.user_id}

RefMaxImportance == MaxOf({r.importance_score : r \in UserRows})

RefMinTs == MinOf({r.ts_epoch : r \in UserRows})

RefRange == MaxOf({r.ts_epoch : r \in UserRows}) - RefMinTs

\* score = n / d, for a numeric score.
IsFraction(score, n, d) == ~score.null /\ score.num * d = n * score.den

\* C25: with non-zero denominators, the combined_score of every returned row
\* is 0.6 * (1 / (1 + distance)) + 0.2 * (importance_score / max_importance)
\* + 0.2 * ((ts_epoch - min_ts) / (max_ts - min_ts)), the normalizers taken
\* over all rows of the queried user.  With distance in tenths the sum is
\*   (60*M*R + 2*imp*(10+dist)*R + 2*(ts-min)*(10+dist)*M) / (10*(10+dist)*M*R).
C25_CombinedScoreFormula ==
    (search.pc = "searched" /\ UserRows # {})
    => LET M == RefMaxImportance
           R == RefRange
       IN  (M # 0 /\ R # 0)
           => \A i \in 1..Len(search.results) :
                 LET rn == search.results[i].row
                 IN  IsFraction(search.results[i].combined_score,
                                60 * M * R
                                  + 2 * rn.importance_score * (10 + rn.distance) * R
                                  + 2 * (rn.ts_epoch - RefMinTs) * (10 + rn.distance) * M,
                                10 * (10 + rn.distance) * M * R)

\* A search returned two rows with non-zero denominators while another user
\* owns a row of greater importance than any of the queried user's.
C25_Witness ==
    /\ search.pc = "searched"
    /\ Len(search.results) = 2
    /\ RefMaxImportance = 1
    /\ RefRange = 1
    /\ \E o \in user_notes :
          /\ o.user_id # search.user_id
          /\ o.importance_score = 2
    /\ \A i \in 1..2 : ~search.results[i].combined_score.null

\* C26: when a denominator is zero (all importances of the user zero, or all
\* timestamps equal, as with a single row), every returned row has a numeric
\* combined_score in which the affected term counts 0 and the other terms
\* count as in the formula.
C26_ZeroDenominatorCountsZero ==
    (search.pc = "searched" /\ UserRows # {})
    => LET M == RefMaxImportance
           R == RefRange
           M1 == IF M = 0 THEN 1 ELSE M
           R1 == IF R = 0 THEN 1 ELSE R
       IN  (M = 0 \/ R = 0)
           => \A i \in 1..Len(search.results) :
                 LET rn == search.results[i].row
                 IN  IsFraction(search.results[i].combined_score,
                                60 * M1 * R1
                                  + 2 * rn.importance_score * (10 + rn.distance) * R1
                                  + 2 * (rn.ts_epoch - RefMinTs) * (10 + rn.distance) * M1,
                                10 * (10 + rn.distance) * M1 * R1)

\* a is strictly greater than b, for numeric scores.
Greater(a, b) == ~a.null /\ ~b.null /\ a.num * b.den > b.num * a.den

\* C27: similarity_search returns at most top_k rows (top_k of them when the
\* user has that many), each a different row of the user, in non-increasing
\* order of combined_score, and no row of the user left out has a
\* combined_score strictly greater than a returned row.
C27_TopKSorted ==
    search.pc = "searched"
    => LET res == search.results
           returned == {res[i].row : i \in 1..Len(res)}
       IN  /\ Len(res) <= search.top_k
           /\ Len(res) = Min(search.top_k, Cardinality(UserRows))
           /\ returned \subseteq UserRows
           /\ Cardinality(returned) = Len(res)
           /\ \A i, j \in 1..Len(res) :
                 i < j => ~Greater(res[j].combined_score, res[i].combined_score)
           /\ \A o \in UserRows \ returned, i \in 1..Len(res) :
                 ~Greater(combined_score(o, stats(search.user_id)), res[i].combined_score)

\* A search with top_k 2 over three rows of the user returned two rows of
\* different scores and left out a row of strictly smaller score.
C27_Witness ==
    /\ search.pc = "searched"
    /\ search.top_k = 2
    /\ Cardinality(UserRows) = 3
    /\ Len(search.results) = 2
    /\ Greater(search.results[1].combined_score, search.results[2].combined_score)
    /\ \E o \in UserRows :
          /\ \A i \in 1..2 : search.results[i].row # o
          /\ Greater(search.results[2].combined_score,
                     combined_score(o, stats(search.user_id)))

\* C28: the similarity context assembled for a job contains only sentences
\* stored under the user_id of the job.
C28_ContextOfOwnUser ==
    search.pc = "context"
    => \A i \in 1..Len(search.similarity_context) :
          search.similarity_context[i].sentence.user_id = search.job_user

----------------------------------------------------------------------------
(* Properties of the ledger writes under failures *)

\* C29: whenever the checkout lets a delivery proceed to the stage, the
\* stage row has status IN_PROGRESS and its attempt_count is one more than
\* the checkout read, and neither ledger write of the checkout failed.
C29_CheckoutWritesBeforeProceeding ==
    [][\A d \in FaultSlots :
         (req[d].pc \in {"set_in_progress", "increment"} /\ req'[d].pc = "prepare_input")
         => /\ pipeline_stages'[req[d].job_id].status = IN_PROGRESS
            /\ pipeline_stages'[req[d].job_id].attempt_count = req[d].attempt_seen + 1
            /\ req'[d].db_error = NULL]_vars

\* The two ledger writes of Pipeline.run (base.py:98-101).
RunWrites == {"write_pipeline_stage_output", "update_pipeline_stage_status COMPLETED"}

\* The output rows stored for job j.
OutputRows(j) == {pipeline_outputs[j][i] : i \in 1..Len(pipeline_outputs[j])}

\* C30: after a step function succeeded, Pipeline.run first writes the
\* output row, then sets the status COMPLETED, then sends the COMPLETED
\* notification with the response; the notification is sent only when both
\* writes succeeded, and when either write fails the run ends as a Transient
\* failure (503) with no notification and without the later write.
C30_WriteOrder ==
    [][\A d \in FaultSlots :
         LET j == req[d].job_id
         IN  /\ Leaves(d, "write_output")
                => \/ /\ pipeline_outputs' = write_pipeline_stage_output(j, req[d].response)
                      /\ req'[d].pc = "set_completed"
                      /\ req'[d].db_error \notin RunWrites
                      /\ UNCHANGED pipeline_stages
                   \/ /\ req'[d].db_error = "write_pipeline_stage_output"
                      /\ req'[d].pc = "transient_handler"
                      /\ UNCHANGED <<pipeline_stages, pipeline_outputs>>
             /\ Leaves(d, "set_completed")
                => /\ req[d].response \in OutputRows(j)
                   /\ req[d].db_error \notin RunWrites
                   /\ \/ /\ pipeline_stages' = update_pipeline_stage_status(j, COMPLETED)
                         /\ req'[d].pc = "done"
                         /\ req'[d].sent = Note(COMPLETED, req[d].response, NULL)
                         /\ req'[d].db_error \notin RunWrites
                      \/ /\ req'[d].db_error = "update_pipeline_stage_status COMPLETED"
                         /\ req'[d].pc = "transient_handler"
                         /\ UNCHANGED <<pipeline_stages, pipeline_outputs>>
             /\ Leaves(d, "transient_handler")
                => /\ req'[d].sent = NoNote
                   /\ req'[d].status_code = 503
                   /\ req'[d].outcome = "Transient"
                   /\ UNCHANGED <<pipeline_stages, pipeline_outputs>>
             /\ (req[d].executed /\ req[d].sent = NoNote /\ req'[d].sent # NoNote)
                => req[d].pc = "set_completed"]_vars

\* A run wrote its output row, the COMPLETED status update failed, and the
\* request ended as a Transient failure without a notification, the stage
\* still IN_PROGRESS.
C30_Witness ==
    /\ req[1].pc = "done"
    /\ req[1].db_error = "update_pipeline_stage_status COMPLETED"
    /\ req[1].response \in OutputRows("J1")
    /\ req[1].outcome = "Transient"
    /\ req[1].status_code = 503
    /\ req[1].sent = NoNote
    /\ J1Row.status = IN_PROGRESS

----------------------------------------------------------------------------
(* The step helpers prepare_context_for_noteback                            *)
(* (impl/context_utils.py:13-108) and format_sentences                      *)
(* (impl/context_utils.py:111-193), followed item by item                   *)

\* Number of search anchors of a context response.
MaxAnchors == 2

\* Number of sentence entries of a context response.
MaxEntries == 2

HelperFunctions == {"prepare_context_for_noteback", "format_sentences"}

\* What the helper is given: no context response, one that is not a dict, no
\* vector database (prepare_context_for_noteback only), a dict without the
\* list or with an empty one, a dict whose value is not a list, or a dict
\* with a non-empty list.
HelperInputs(fn) ==
    {"none", "nondict", "no_items", "nonlist", "list"}
    \cup (IF fn = "prepare_context_for_noteback" THEN {"no_db"} ELSE {})

\* context_utils.py:56   an anchor is a str, or it is None or of another type.
AnchorKinds == {"str", "invalid"}

\* context_utils.py:145-174   a sentence entry passes the checks or fails one.
EntryKinds == {"ok", "nondict", "missing_fields", "text_not_str", "score_not_number"}

\* The non-empty sequences over S of length at most n.
SeqsUpTo(S, n) == UNION { [1..k -> S] : k \in 1..n }

\* context_utils.py:67-90   what the search of one anchor gives: the store
\* raises, the results are None, an item of the results is malformed, or the
\* results are formatted into lines.
SearchOutcomes == {"raises", "none", "bad_item", "results"}

\* context_utils.py:26-48, 123-138   the message of the FatalPipelineError of
\* the checks before the loop, NULL when they pass.
InputCheck(fn, input) ==
    CASE input \in {"none", "nondict"} -> "Invalid context response format: Expected dict"
      [] input = "no_db" -> "Vector database not initialized"
      [] input = "no_items" ->
           IF fn = "format_sentences" THEN "No sentences found in context response"
           ELSE "No search anchors found in context response"
      [] input = "nonlist" ->
           IF fn = "format_sentences" THEN "Invalid sentences_data format: Expected list"
           ELSE "Invalid search_anchors format: Expected list"
      [] OTHER -> NULL

\* The helper raises: origin is the class of the error at the place it was
\* first raised, kind the class of the error that leaves the helper.
HelperRaise(h, origin, kind, message) ==
    [h EXCEPT !.pc = "raised", !.origin = origin, !.raised = kind, !.message = message]

\* context_utils.py:92-97 and 179-184   except Exception catches every error
\* raised inside the try, the two classified errors included, and raises
\* FatalPipelineError.
ExceptException(origin) == "Fatal"

\* context_utils.py:72, 82, 90   the class of the error raised inside the try
\* of the anchor loop; an exception of the store is not classified.
SearchOrigin(outcome) == IF outcome = "raises" THEN "Unclassified" ELSE "Fatal"

\* context_utils.py:150, 155, 166, 174   the class of the error raised for
\* an entry that fails a check.
EntryOrigin(entry) == IF entry = "score_not_number" THEN "Transient" ELSE "Fatal"

\* context_utils.py:26-52, 123-141   the checks before the loop.
HelperStart ==
    /\ helper.pc = "start"
    /\ helper' = IF InputCheck(helper.fn, helper.input) # NULL
                 THEN HelperRaise(helper, "Fatal", "Fatal",
                                  InputCheck(helper.fn, helper.input))
                 ELSE [helper EXCEPT !.pc = "loop", !.idx = 1]
    /\ UNCHANGED <<pipeline_stages, pipeline_outputs, req, acked, seqN, notified, original,
                   proc, faults, user_notes, search>>

\* context_utils.py:54-97   one anchor of the loop: an invalid anchor is
\* counted and skipped (continue); otherwise the search is made and its
\* results are formatted and appended, or the error is raised.
AnchorStep ==
    /\ helper.fn = "prepare_context_for_noteback"
    /\ helper.pc = "loop"
    /\ helper.idx <= Len(helper.items)
    /\ IF helper.items[helper.idx] = "invalid"
       THEN helper' = [helper EXCEPT !.skipped = @ \cup {helper.idx}, !.idx = @ + 1,
                                     !.outcomes = Append(@, "skipped")]
       ELSE \E outcome \in SearchOutcomes :
              LET h == [helper EXCEPT !.outcomes = Append(@, outcome)]
              IN  helper' = IF outcome = "results"
                            THEN [h EXCEPT !.out = Append(@, [anchor |-> helper.idx]),
                                           !.idx = @ + 1]
                            ELSE HelperRaise(h, SearchOrigin(outcome),
                                             ExceptException(SearchOrigin(outcome)),
                                             "Similarity search failed")
    /\ UNCHANGED <<pipeline_stages, pipeline_outputs, req, acked, seqN, notified, original,
                   proc, faults, user_notes, search>>

\* context_utils.py:143-184   one entry of the loop: the formatted sentence is
\* appended, or the error of the failed check is raised inside the try.
SentenceStep ==
    /\ helper.fn = "format_sentences"
    /\ helper.pc = "loop"
    /\ helper.idx <= Len(helper.items)
    /\ LET entry == helper.items[helper.idx]
           h == [helper EXCEPT !.outcomes = Append(@, entry)]
       IN  helper' = IF entry = "ok"
                     THEN [h EXCEPT !.out = Append(@, [sentence |-> helper.idx]),
                                    !.idx = @ + 1]
                     ELSE HelperRaise(h, EntryOrigin(entry),
                                      ExceptException(EntryOrigin(entry)),
                                      "Failed to format sentence")
    /\ UNCHANGED <<pipeline_stages, pipeline_outputs, req, acked, seqN, notified, original,
                   proc, faults, user_notes, search>>

\* context_utils.py:99-108, 186-193   after the loop the list is returned.
HelperReturn ==
    /\ helper.pc = "loop"
    /\ helper.idx > Len(helper.items)
    /\ helper' = [helper EXCEPT !.pc = "returned"]
    /\ UNCHANGED <<pipeline_stages, pipeline_outputs, req, acked, seqN, notified, original,
                   proc, faults, user_notes, search>>

\* One call of a helper with any input.
InitHelpers ==
    /\ pipeline_stages = [j \in Jobs |-> IF j = "J1" THEN FreshRow ELSE NoRow]
    /\ pipeline_outputs = [j \in Jobs |-> <<>>]
    /\ original = NULL
    /\ seqN = 0
    /\ req = [d \in AllSlots |-> IdleReq]
    /\ acked = [j \in Jobs |-> FALSE]
    /\ notified = [j \in Jobs |-> {}]
    /\ faults = 0
    /\ proc = NoProc
    /\ user_notes = {}
    /\ search = NoSearch
    /\ \E fn \in HelperFunctions :
       \E input \in HelperInputs(fn) :
         \E items \in IF input # "list" THEN {<<>>}
                      ELSE IF fn = "format_sentences" THEN SeqsUpTo(EntryKinds, MaxEntries)
                      ELSE SeqsUpTo(AnchorKinds, MaxAnchors) :
            helper = [NoHelper EXCEPT !.fn = fn, !.pc = "start", !.input = input,
                                      !.items = items]

NextHelpers ==
    \/ HelperStart
    \/ AnchorStep
    \/ SentenceStep
    \/ HelperReturn

SpecHelpers == InitHelpers /\ [][NextHelpers]_vars

----------------------------------------------------------------------------
(* Properties of the step helpers *)

\* C31: re-raising in a step helper preserves the classification: an error
\* first raised as TransientPipelineError never leaves the helper as
\* FatalPipelineError, and an error first raised as FatalPipelineError never
\* leaves it as TransientPipelineError.
C31_ReraisePreservesClass ==
    (helper.pc = "raised" /\ helper.origin \in {"Fatal", "Transient"})
    => helper.raised = helper.origin

\* C32: prepare_context_for_noteback raises a Fatal error when the context
\* response has no or empty search anchors, and a Transient error when the
\* similarity query of an anchor fails in the store.
C32_AnchorErrorClasses ==
    (helper.fn = "prepare_context_for_noteback" /\ helper.pc = "raised")
    => /\ helper.input = "no_items" => helper.raised = "Fatal"
       /\ (helper.outcomes # <<>> /\ helper.outcomes[Len(helper.outcomes)] = "raises")
          => helper.raised = "Transient"

\* C33: when prepare_context_for_noteback returns, the list holds the
\* formatted results of every anchor in anchor order; no anchor was left out.
C33_NoPartialContext ==
    (helper.fn = "prepare_context_for_noteback" /\ helper.pc = "returned")
    => /\ helper.skipped = {}
       /\ helper.out = [i \in 1..Len(helper.items) |-> [anchor |-> i]]

----------------------------------------------------------------------------
(* Properties of the stage row between deliveries *)

\* No request is being handled.
Quiescent == \A d \in AllSlots : ~InFlight(d)

C35_CompletedHasOutput ==
    [][\A j \in Jobs :
         /\ (pipeline_stages[j].status # COMPLETED /\ pipeline_stages'[j].status = COMPLETED)
            => \E d \in AllSlots :
                  /\ req[d].job_id = j
                  /\ Leaves(d, "set_completed")
                  /\ req[d].db_error # "write_pipeline_stage_output"
                  /\ req[d].response \in OutputRows(j)
                  /\ pipeline_outputs'[j] = pipeline_outputs[j]
         /\ \A d \in AllSlots :
              (req[d].job_id = j /\ req[d].db_error = "write_pipeline_stage_output")
              => pipeline_stages'[j] = pipeline_stages[j]]_vars

\* A run stored its output and then completed a stage that was not COMPLETED.
C35_Witness ==
    /\ req[1].pc = "done"
    /\ req[1].outcome = "Completed"
    /\ req[1].db_error = NULL
    /\ req[1].attempt_seen = 0
    /\ J1Row.status = COMPLETED
    /\ pipeline_outputs["J1"] = <<req[1].response>>

C37_AckedAfterCheckoutIsTerminal ==
    [][\A d \in Slots :
         (PassedCheckout(d) /\ req'[d].pc = "done" /\ Is2xx(req'[d].status_code))
         => pipeline_stages'[req[d].job_id].status \in {COMPLETED, FAILED}]_vars

\* C38: when reading the stage row raises during the checkout, the request is
\* answered 200 and the delivery is dropped: the ledger is not changed, the
\* step function is not run, no upstream call is made and the message counts
\* as acknowledged, so it is not delivered again.
C38_ReadFailureDropped ==
    [][\A d \in FaultSlots :
         (req[d].pc = "checkout" /\ req'[d].db_error = "read_stage")
         => /\ req'[d].pc = "done"
            /\ req'[d].status_code = 200
            /\ acked'[req[d].job_id]
            /\ req'[d].sent = NoNote
            /\ ~req'[d].executed
            /\ UNCHANGED <<pipeline_stages, pipeline_outputs, notified>>]_vars

\* The read of the row of a waiting stage failed and the request was answered.
C38_Witness ==
    /\ req[1].pc = "done"
    /\ req[1].db_error = "read_stage"
    /\ req[1].outcome = "ReadFailed"
    /\ J1Row.status = PENDING
    /\ J1Row.attempt_count = 0
    /\ acked["J1"]

----------------------------------------------------------------------------
(* Failing metrics writes *)

\* The step hands metrics to the writer and db.write_metrics raises: no
\* llm_metrics row is inserted.
MetricsWriteFails ==
    /\ proc.pc \in MetricsSteps
    /\ Len(proc'.handed) = Len(proc.handed) + 1
    /\ proc'.llm_metrics = proc.llm_metrics

\* How a metrics step ends when the write succeeds: it depends on the response
\* of the call alone (stt.py:66-73, smart.py:79-82, 150).
OutcomeOf(p) ==
    LET call == p.calls[Len(p.calls)]
    IN  CASE p.pc = "stt_metrics" /\ call.response = NULL ->
               [pc |-> "raised", raised |-> "Transient", result |-> NULL]
          [] p.pc = "stt_metrics" /\ call.response # NULL ->
               [pc |-> "returned", raised |-> NULL, result |-> call.response]
          [] p.pc = "context_metrics" /\ call.response = NonDict ->
               [pc |-> "raised", raised |-> "Fatal", result |-> NULL]
          [] p.pc = "context_metrics" /\ call.response # NonDict ->
               [pc |-> "similarity", raised |-> NULL, result |-> NULL]
          [] OTHER ->
               [pc |-> "returned", raised |-> NULL, result |-> call.response]

\* C39: a failing metrics write never changes the outcome of the step
\* function: the step goes on, and returns or raises exactly as it does when
\* the write succeeds.
C39_MetricsFailureContained ==
    [][MetricsWriteFails
       => [pc |-> proc'.pc, raised |-> proc'.raised, result |-> proc'.result]
          = OutcomeOf(proc)]_vars

\* The step function returned its response although both of its metrics
\* writes failed.
C39_Witness ==
    /\ proc.pipeline = "SmartPipeline"
    /\ proc.pc = "returned"
    /\ proc.result \in Payloads
    /\ proc.raised = NULL
    /\ Len(proc.handed) = 2
    /\ proc.llm_metrics = <<>>

====
